---- MODULE Spec2Model ----
(***************************************************************************)
(* State machine of the chess front end (src/src/App.jsx): the React state  *)
(* of the App component, its event handlers (square click, history click,   *)
(* New Game, AI configuration controls) and the deferred AI callback.       *)
(* The chess engine (js-chess-engine) is an external library; it is         *)
(* represented by a small tabulated game that offers the interface the app  *)
(* uses: exportJson(), moves(sq), move(from, to), ai(opts), new Game(cfg).  *)
(***************************************************************************)
EXTENDS Integers, Sequences, FiniteSets, TLC

\* Longest game played by the human, in plies (bounds the fullMove/halfMove
\* counters of the engine's board configuration).
MaxPly == 10

\* JS null / undefined for a square-valued state and for a last move.
Null == "null"
NoMove == << >>

\* The squares of the board that the tabulated game uses (FILES x RANKS).
Squares ==
  {"A1", "C1", "D1", "E1", "F1", "G1", "H1", "E2", "H2",
   "D4", "E4", "H4", "E7", "F7", "D8", "E8"}

\* String.prototype.toUpperCase on a one-letter piece name.
ToUpperCase(piece) ==
  CASE piece = "k" -> "K" [] piece = "q" -> "Q" [] piece = "r" -> "R"
    [] piece = "b" -> "B" [] piece = "n" -> "N" [] piece = "p" -> "P"
    [] OTHER -> piece

\* isWhite that accepts every piece.
isWhiteAlways(piece) == TRUE

isWhite(piece) == piece = ToUpperCase(piece)

moveLabel(from, to) == from \o "-" \o to

CUSTOM_DEFAULTS ==
  [depth |-> 4, extended |-> 3, quiescence |-> 4, check |-> TRUE,
   ttSizeMB |-> 20, randomness |-> 0]

\* The level buttons offered by the side bar, and the values the model lets
\* the "Depth" input of the custom configuration take.
AiLevels == {3, 5}
DepthInputs == {4, 8}

(***************************************************************************)
(* The Game facade: the positions of the tabulated game.                   *)
(***************************************************************************)
Board(turn, check, checkMate, pieces) ==
  [turn |-> turn, check |-> check, checkMate |-> checkMate, pieces |-> pieces]

Kinds ==
  [ W0     |-> Board("white", FALSE, FALSE,
                [A1 |-> "R", E1 |-> "K", H1 |-> "R", E2 |-> "P", E8 |-> "k", D8 |-> "q"]),
    Bh2    |-> Board("black", FALSE, FALSE,
                [A1 |-> "R", E1 |-> "K", H2 |-> "R", E2 |-> "P", E8 |-> "k", D8 |-> "q"]),
    Wh2    |-> Board("white", FALSE, FALSE,
                [A1 |-> "R", E1 |-> "K", H2 |-> "R", E2 |-> "P", E7 |-> "k", D8 |-> "q"]),
    Bh1    |-> Board("black", FALSE, FALSE,
                [A1 |-> "R", E1 |-> "K", H1 |-> "R", E2 |-> "P", E7 |-> "k", D8 |-> "q"]),
    Be4    |-> Board("black", FALSE, FALSE,
                [A1 |-> "R", E1 |-> "K", H1 |-> "R", E4 |-> "P", E8 |-> "k", D8 |-> "q"]),
    Wchk   |-> Board("white", TRUE, FALSE,
                [A1 |-> "R", E1 |-> "K", H1 |-> "R", E4 |-> "P", E8 |-> "k", H4 |-> "q"]),
    Bstale |-> Board("black", FALSE, FALSE,
                [A1 |-> "R", E1 |-> "K", H4 |-> "R", E4 |-> "P", E8 |-> "k"]),
    Bkd1   |-> Board("black", FALSE, FALSE,
                [A1 |-> "R", D1 |-> "K", H1 |-> "R", E4 |-> "P", E8 |-> "k", H4 |-> "q"]),
    Wmated |-> Board("white", TRUE, TRUE,
                [A1 |-> "R", D1 |-> "K", H1 |-> "R", E4 |-> "P", E8 |-> "k", D4 |-> "q"]),
    Bcas   |-> Board("black", FALSE, FALSE,
                [A1 |-> "R", G1 |-> "K", F1 |-> "R", E2 |-> "P", E8 |-> "k", D8 |-> "q"]),
    Wcas   |-> Board("white", FALSE, FALSE,
                [A1 |-> "R", G1 |-> "K", F1 |-> "R", E2 |-> "P", E7 |-> "k", D8 |-> "q"]),
    Bmate  |-> Board("black", TRUE, TRUE,
                [A1 |-> "R", G1 |-> "K", F7 |-> "R", E2 |-> "P", E7 |-> "k", D8 |-> "q"]),
    Bkh2   |-> Board("black", FALSE, FALSE,
                [A1 |-> "R", H2 |-> "K", F1 |-> "R", E2 |-> "P", E7 |-> "k", D8 |-> "q"]),
    Wkh2   |-> Board("white", FALSE, FALSE,
                [A1 |-> "R", H2 |-> "K", F1 |-> "R", E2 |-> "P", E8 |-> "k", D8 |-> "q"]),
    Bkh1   |-> Board("black", FALSE, FALSE,
                [A1 |-> "R", H1 |-> "K", F1 |-> "R", E2 |-> "P", E8 |-> "k", D8 |-> "q"]),
    Wlost  |-> Board("white", TRUE, TRUE,
                [A1 |-> "R", H1 |-> "K", F1 |-> "R", E2 |-> "P", E8 |-> "k", H4 |-> "q"]),
    Bcasq  |-> Board("black", FALSE, FALSE,
                [C1 |-> "K", D1 |-> "R", H1 |-> "R", E2 |-> "P", E8 |-> "k", D8 |-> "q"]),
    Wcasq  |-> Board("white", FALSE, FALSE,
                [C1 |-> "K", D1 |-> "R", H1 |-> "R", E2 |-> "P", E7 |-> "k", D8 |-> "q"]),
    BmateQ |-> Board("black", TRUE, TRUE,
                [C1 |-> "K", D8 |-> "R", H1 |-> "R", E2 |-> "P", E7 |-> "k"]) ]

\* The legal moves of every position: <<position, from, to, position reached>>.
MoveTable ==
  { <<"W0", "E2", "E4", "Be4">>,    <<"W0", "E1", "G1", "Bcas">>,
    <<"W0", "E1", "C1", "Bcasq">>,  <<"W0", "H1", "H2", "Bh2">>,
    <<"Bh2", "E8", "E7", "Wh2">>,   <<"Wh2", "H2", "H1", "Bh1">>,
    <<"Bh1", "E7", "E8", "W0">>,
    <<"Be4", "D8", "H4", "Wchk">>,
    <<"Wchk", "H1", "H4", "Bstale">>, <<"Wchk", "E1", "D1", "Bkd1">>,
    <<"Bkd1", "H4", "D4", "Wmated">>,
    <<"Bcas", "E8", "E7", "Wcas">>,
    <<"Wcas", "G1", "H2", "Bkh2">>, <<"Wcas", "F1", "F7", "Bmate">>,
    <<"Bkh2", "E7", "E8", "Wkh2">>,
    <<"Wkh2", "H2", "G1", "Bcas">>, <<"Wkh2", "H2", "H1", "Bkh1">>,
    <<"Bkh1", "D8", "H4", "Wlost">>,
    <<"Bcasq", "E8", "E7", "Wcasq">>,
    <<"Wcasq", "D1", "D8", "BmateQ">> }

\* A board configuration (exportJson): the position and the move counter.
Cfg(kind, n) == [kind |-> kind, n |-> n]

\* new Game(): the canonical start position.
NewGame == Cfg("W0", 0)

Turn(cfg) == Kinds[cfg.kind].turn
CheckMate(cfg) == Kinds[cfg.kind].checkMate
Check(cfg) == Kinds[cfg.kind].check

\* cfg.pieces[sq]: "" stands for undefined (no piece on sq).
PieceAt(cfg, sq) ==
  LET p == Kinds[cfg.kind].pieces IN IF sq \in DOMAIN p THEN p[sq] ELSE ""

\* All legal moves of the side to move, as <<from, to>>.
LegalMoves(cfg) == { <<m[2], m[3]>> : m \in { x \in MoveTable : x[1] = cfg.kind } }

\* game.moves(sq)[sq] || []
getMovesForSquare(g, sq) == { m[2] : m \in { x \in LegalMoves(g) : x[1] = sq } }

\* game.move(from, to) on a legal move: the position reached.
MoveResult(g, from, to) ==
  LET m == CHOOSE x \in MoveTable : x[1] = g.kind /\ x[2] = from /\ x[3] = to
  IN  Cfg(m[4], g.n + 1)

VARIABLES game, config, selected, validMoves, status, aiThinking, lastMove,
          configMode, aiLevel, custom, history, currentPly, timers, lastOp

appVars == <<game, config, selected, validMoves, status, aiThinking, lastMove,
             configMode, aiLevel, custom, history, currentPly>>
vars == <<game, config, selected, validMoves, status, aiThinking, lastMove,
          configMode, aiLevel, custom, history, currentPly, timers, lastOp>>

\* Observation of the last event handled: which handler ran (op), its input
\* (sq or ply), which branch of the handler was taken (res), and, for an
\* event that wrote a history entry, the ply it was written after (base)
\* and the length of the history before the write (oldLen).
Op(op, sq, ply, res, base, oldLen) ==
  [op |-> op, sq |-> sq, ply |-> ply, res |-> res, base |-> base, oldLen |-> oldLen]

StartEntry(cfg) == [label |-> "Start", snapshot |-> cfg, lastMove |-> NoMove]

Init ==
  /\ game = NewGame
  /\ config = NewGame
  /\ selected = Null
  /\ validMoves = {}
  /\ status = "Your turn (White)"
  /\ aiThinking = FALSE
  /\ lastMove = NoMove
  /\ configMode = "level"
  /\ aiLevel = 3
  /\ custom = CUSTOM_DEFAULTS
  /\ history = << StartEntry(NewGame) >>
  /\ currentPly = 0
  /\ timers = << >>
  /\ lastOp = Op("init", Null, -1, "", 0, 0)

(***************************************************************************)
(* The live Game object is mutable and is shared by reference between the  *)
(* game state and the pending timer callbacks.  A timer's g is either the  *)
(* live object (live = TRUE) or an object that setGame has since replaced, *)
(* which then keeps its own position (pos).                                *)
(***************************************************************************)
LiveRef == [live |-> TRUE, pos |-> NewGame]

\* setGame(new object): pending callbacks keep the object they captured.
Detach(ts) ==
  [i \in 1..Len(ts) |->
     IF ts[i].g.live THEN [ts[i] EXCEPT !.g = [live |-> FALSE, pos |-> game]]
     ELSE ts[i]]

\* The position of the Game object a pending callback will search.
TimerPos(t) == IF t.g.live THEN game ELSE t.g.pos

\* doAiMove that builds on the history state of the render instead of the
\* prevHistory it is passed.
doAiMoveOnState(ts, mode, level, cust, prevHistory) ==
  /\ aiThinking' = TRUE
  /\ timers' = Append(ts, [g |-> [live |-> TRUE, pos |-> NewGame], mode |-> mode,
                           level |-> level, cust |-> cust, prevHistory |-> history])

\* doAiMove(g, mode, level, cust, prevHistory): setAiThinking(true) and
\* setTimeout(callback, 50); ts are the timers already pending.
doAiMove(ts, mode, level, cust, prevHistory) ==
  /\ aiThinking' = TRUE
  /\ timers' = Append(ts, [g |-> LiveRef, mode |-> mode, level |-> level,
                           cust |-> cust, prevHistory |-> prevHistory])

\* The last index of the history state of the render, not of h.
LastIndexOfState(h) == Len(history) - 1

\* The length of the written history taken as its last index.
LastIndexPlusOne(h) == Len(h)

\* The new current ply after the history h was written: h.length - 1.
LastIndex(h) == Len(h) - 1

\* The status the timer callback sets from the board it got back.
AiStatus(cfg) ==
  IF CheckMate(cfg) THEN "Checkmate! AI wins!"
  ELSE IF Check(cfg) THEN "Check! Your turn (White)"
  ELSE "Your turn (White)"

\* The callback of doAiMove's setTimeout.  g.ai() plays one of the legal
\* moves of the side to move on g and returns it with the board reached;
\* on a position without a legal move no move comes back and the callback
\* ends in an exception before its first setter.
AiTimer ==
  /\ timers # << >>
  /\ LET t == Head(timers)
         g == TimerPos(t)
     IN  IF LegalMoves(g) = {}
         THEN /\ timers' = Tail(timers)
              /\ lastOp' = Op("timer", Null, -1, "threw", 0, 0)
              /\ UNCHANGED appVars
         ELSE \E mv \in LegalMoves(g) :
                LET cfg == MoveResult(g, mv[1], mv[2])
                    lm == mv
                    newHistory == Append(t.prevHistory,
                                    [label |-> moveLabel(mv[1], mv[2]),
                                     snapshot |-> cfg, lastMove |-> lm])
                IN  /\ game' = IF t.g.live THEN cfg ELSE game
                    /\ timers' = Tail(timers)
                    /\ lastMove' = lm
                    /\ config' = cfg
                    /\ aiThinking' = FALSE
                    /\ history' = newHistory
                    /\ currentPly' = LastIndex(newHistory)
                    /\ status' = AiStatus(cfg)
                    /\ lastOp' = Op("timer", mv[2], -1, "moved",
                                    Len(t.prevHistory) - 1, Len(history))
                    /\ UNCHANGED <<selected, validMoves, configMode, aiLevel, custom>>

\* handleSquareClick without the test of config.checkMate.
ClickIgnoredNoMate == aiThinking \/ Turn(config) # "white"

\* The early return of handleSquareClick.
ClickIgnored == aiThinking \/ Turn(config) # "white" \/ CheckMate(config)

CASTLE_ROOK_MAP == [H1 |-> "G1", A1 |-> "C1"]

\* The clicked square used as it is, without the castle redirection.
TargetSqVerbatim(sq) == sq

\* The effective destination of a click on sq while a square is selected.
TargetSq(sq) ==
  LET isKing == PieceAt(config, selected) = "K"
      castleDest == IF isKing /\ sq \in DOMAIN CASTLE_ROOK_MAP
                    THEN CASTLE_ROOK_MAP[sq] ELSE Null
  IN  IF castleDest # Null /\ castleDest \in validMoves THEN castleDest ELSE sq

\* The history kept whole, and the history sliced from index 1.
HistoryBaseAll == history
HistoryBaseFromOne == SubSeq(history, 2, currentPly + 1)

\* history.slice(0, currentPly + 1)
HistoryBase == SubSeq(history, 1, currentPly + 1)

\* No test of the checkmate flag before doAiMove.
NeverOver(cfg) == FALSE

\* The test made on the board after a human move, and on the restored
\* snapshot in rollbackTo, before doAiMove is called: if (cfg.checkMate).
GameOver(cfg) == CheckMate(cfg)

\* rollbackTo without setSelected(null) and setValidMoves([]).
RollbackKeepsSelection == UNCHANGED <<selected, validMoves>>

\* The selection after rollbackTo: setSelected(null), setValidMoves([]).
RollbackSelection ==
  /\ selected' = Null
  /\ validMoves' = {}

\* The branch of handleSquareClick that applies the move selected -> to.
\* game.move() raises an exception on a move that is not legal in the live
\* game, before any setter has run.
ApplyHumanMove(sq, to) ==
  IF <<selected, to>> \notin LegalMoves(game)
  THEN /\ lastOp' = Op("click", sq, -1, "threw", 0, 0)
       /\ UNCHANGED <<appVars, timers>>
  ELSE LET cfg == MoveResult(game, selected, to)
           lm == <<selected, to>>
           afterWhite == Append(HistoryBase,
                           [label |-> moveLabel(selected, to),
                            snapshot |-> cfg, lastMove |-> lm])
       IN  /\ game.n + 2 <= MaxPly
           /\ game' = cfg
           /\ lastMove' = lm
           /\ selected' = Null
           /\ validMoves' = {}
           /\ config' = cfg
           /\ history' = afterWhite
           /\ currentPly' = LastIndex(afterWhite)
           /\ lastOp' = Op("click", sq, -1, "moved", currentPly, Len(history))
           /\ UNCHANGED <<configMode, aiLevel, custom>>
           /\ IF GameOver(cfg)
              THEN /\ status' = "Checkmate! You win!"
                   /\ UNCHANGED <<aiThinking, timers>>
              ELSE /\ status' = "AI thinking..."
                   /\ doAiMove(timers, configMode, aiLevel, custom, afterWhite)

\* The branches of handleSquareClick that only change the selection.
SelectOnly(sq, elseDeselect) ==
  LET piece == PieceAt(config, sq)
  IN  /\ IF piece # "" /\ isWhite(piece)
         THEN /\ selected' = sq
              /\ validMoves' = getMovesForSquare(game, sq)
              /\ lastOp' = Op("click", sq, -1, "selected", 0, 0)
         ELSE IF elseDeselect
         THEN /\ selected' = Null
              /\ validMoves' = {}
              /\ lastOp' = Op("click", sq, -1, "deselected", 0, 0)
         ELSE /\ UNCHANGED <<selected, validMoves>>
              /\ lastOp' = Op("click", sq, -1, "none", 0, 0)
      /\ UNCHANGED <<game, config, status, aiThinking, lastMove, configMode,
                     aiLevel, custom, history, currentPly, timers>>

handleSquareClick(sq) ==
  IF ClickIgnored
  THEN /\ lastOp' = Op("click", sq, -1, "ignored", 0, 0)
       /\ UNCHANGED <<appVars, timers>>
  ELSE IF selected # Null
  THEN IF TargetSq(sq) \in validMoves
       THEN ApplyHumanMove(sq, TargetSq(sq))
       ELSE SelectOnly(sq, TRUE)
  ELSE SelectOnly(sq, FALSE)

\* rollbackTo without its test of aiThinking.
RollbackNeverIgnored == FALSE

\* The early return of rollbackTo on the in-flight flag.
RollbackIgnored == aiThinking

\* rollbackTo cutting the log at the restored ply.
RollbackHistoryTruncated(ply) == history' = SubSeq(history, 1, ply + 1)

\* rollbackTo calls no setHistory: the log is the one it read.
RollbackHistory(ply) == history' = history

rollbackTo(ply) ==
  IF RollbackIgnored
  THEN /\ lastOp' = Op("rollback", Null, ply, "ignored", 0, 0)
       /\ UNCHANGED <<appVars, timers>>
  ELSE IF ply \notin 0..(Len(history) - 1)
  THEN /\ lastOp' = Op("rollback", Null, ply, "norange", 0, 0)
       /\ UNCHANGED <<appVars, timers>>
  ELSE LET entry == history[ply + 1]
           cfg == entry.snapshot
       IN  /\ game' = cfg
           /\ config' = cfg
           /\ lastMove' = entry.lastMove
           /\ RollbackSelection
           /\ currentPly' = ply
           /\ RollbackHistory(ply)
           /\ lastOp' = Op("rollback", Null, ply, "restored", currentPly, Len(history))
           /\ UNCHANGED <<configMode, aiLevel, custom>>
           /\ IF GameOver(cfg)
              THEN /\ status' = "Checkmate! " \o
                         (IF Turn(cfg) = "white" THEN "AI" ELSE "You") \o " wins!"
                   /\ aiThinking' = aiThinking
                   /\ timers' = Detach(timers)
              ELSE IF Turn(cfg) = "black"
              THEN /\ status' = "AI thinking..."
                   /\ doAiMove(Detach(timers), configMode, aiLevel, custom,
                               SubSeq(history, 1, ply + 1))
              ELSE /\ status' = (IF Check(cfg) THEN "Check! Your turn (White)"
                                 ELSE "Your turn (White)")
                   /\ aiThinking' = aiThinking
                   /\ timers' = Detach(timers)

\* The New Game button always enabled.
ResetNeverDisabled == FALSE

\* The New Game button is rendered with disabled={aiThinking}.
ResetDisabled == aiThinking

resetGame ==
  /\ ~ResetDisabled
  /\ game' = NewGame
  /\ config' = NewGame
  /\ selected' = Null
  /\ validMoves' = {}
  /\ status' = "Your turn (White)"
  /\ aiThinking' = FALSE
  /\ lastMove' = NoMove
  /\ history' = << StartEntry(NewGame) >>
  /\ currentPly' = 0
  /\ timers' = Detach(timers)
  /\ lastOp' = Op("reset", Null, -1, "", currentPly, Len(history))
  /\ UNCHANGED <<configMode, aiLevel, custom>>

\* The configuration controls are rendered disabled while aiThinking, the
\* level buttons and the custom inputs also outside their mode.
setConfigMode(mode) ==
  /\ ~aiThinking
  /\ mode # configMode
  /\ configMode' = mode
  /\ lastOp' = Op("config", Null, -1, "mode", 0, 0)
  /\ UNCHANGED <<game, config, selected, validMoves, status, aiThinking,
                 lastMove, aiLevel, custom, history, currentPly, timers>>

setAiLevel(lvl) ==
  /\ ~(aiThinking \/ configMode # "level")
  /\ aiLevel' = lvl
  /\ lastOp' = Op("config", Null, -1, "level", 0, 0)
  /\ UNCHANGED <<game, config, selected, validMoves, status, aiThinking,
                 lastMove, configMode, custom, history, currentPly, timers>>

\* updateCustom('depth', val) from the Depth input.
updateCustom(val) ==
  /\ ~(aiThinking \/ configMode # "custom")
  /\ custom' = [custom EXCEPT !.depth = val]
  /\ lastOp' = Op("config", Null, -1, "custom", 0, 0)
  /\ UNCHANGED <<game, config, selected, validMoves, status, aiThinking,
                 lastMove, configMode, aiLevel, history, currentPly, timers>>

Next ==
  \/ \E sq \in Squares : handleSquareClick(sq)
  \/ \E ply \in -1..Len(history) : rollbackTo(ply)
  \/ resetGame
  \/ AiTimer
  \/ \E mode \in {"level", "custom"} : setConfigMode(mode)
  \/ \E lvl \in AiLevels : setAiLevel(lvl)
  \/ \E val \in DepthInputs : updateCustom(val)

Spec == Init /\ [][Next]_vars

(***************************************************************************)
(* The earlier variant of App: no history log, no rollback, and a New Game *)
(* button that is never disabled.  history and currentPly are not part of  *)
(* it and keep their initial values.                                       *)
(***************************************************************************)
\* The most timer callbacks pending at once.
MaxPending == 1

\* doAiMove(g, mode, level, cust): setAiThinking(true) and
\* setTimeout(callback, 50); ts are the timers already pending.
doAiMoveOld(ts, mode, level, cust) ==
  /\ aiThinking' = TRUE
  /\ timers' = Append(ts, [g |-> LiveRef, mode |-> mode, level |-> level,
                           cust |-> cust])

\* The callback of doAiMove's setTimeout.  It searches the Game object it
\* captured, which after a New Game is no longer the one of the state,
\* and writes the move and the board it got back to the display.
AiTimerOld ==
  /\ timers # << >>
  /\ LET t == Head(timers)
         g == TimerPos(t)
     IN  IF LegalMoves(g) = {}
         THEN /\ timers' = Tail(timers)
              /\ lastOp' = Op("timer", Null, -1, "threw", 0, 0)
              /\ UNCHANGED appVars
         ELSE \E mv \in LegalMoves(g) :
                LET cfg == MoveResult(g, mv[1], mv[2])
                IN  /\ game' = IF t.g.live THEN cfg ELSE game
                    /\ timers' = Tail(timers)
                    /\ lastMove' = mv
                    /\ config' = cfg
                    /\ aiThinking' = FALSE
                    /\ status' = AiStatus(cfg)
                    /\ lastOp' = Op("timer", mv[2], -1, "moved", 0, 0)
                    /\ UNCHANGED <<selected, validMoves, configMode, aiLevel,
                                   custom, history, currentPly>>

\* The branch of handleSquareClick that applies the move selected -> to.
ApplyHumanMoveOld(sq, to) ==
  IF <<selected, to>> \notin LegalMoves(game)
  THEN /\ lastOp' = Op("click", sq, -1, "threw", 0, 0)
       /\ UNCHANGED <<appVars, timers>>
  ELSE LET cfg == MoveResult(game, selected, to)
       IN  /\ game.n + 2 <= MaxPly
           /\ Len(timers) < MaxPending
           /\ game' = cfg
           /\ lastMove' = <<selected, to>>
           /\ selected' = Null
           /\ validMoves' = {}
           /\ config' = cfg
           /\ lastOp' = Op("click", sq, -1, "moved", 0, 0)
           /\ UNCHANGED <<configMode, aiLevel, custom, history, currentPly>>
           /\ IF GameOver(cfg)
              THEN /\ status' = "Checkmate! You win!"
                   /\ UNCHANGED <<aiThinking, timers>>
              ELSE /\ status' = "AI thinking..."
                   /\ doAiMoveOld(timers, configMode, aiLevel, custom)

handleSquareClickOld(sq) ==
  IF ClickIgnored
  THEN /\ lastOp' = Op("click", sq, -1, "ignored", 0, 0)
       /\ UNCHANGED <<appVars, timers>>
  ELSE IF selected # Null
  THEN IF TargetSq(sq) \in validMoves
       THEN ApplyHumanMoveOld(sq, TargetSq(sq))
       ELSE SelectOnly(sq, TRUE)
  ELSE SelectOnly(sq, FALSE)

\* resetGame behind a button without a disabled attribute: it runs in
\* every state, also while a timer callback is pending.
resetGameOld ==
  /\ game' = NewGame
  /\ config' = NewGame
  /\ selected' = Null
  /\ validMoves' = {}
  /\ status' = "Your turn (White)"
  /\ aiThinking' = FALSE
  /\ lastMove' = NoMove
  /\ timers' = Detach(timers)
  /\ lastOp' = Op("reset", Null, -1, "", 0, Len(timers))
  /\ UNCHANGED <<configMode, aiLevel, custom, history, currentPly>>

NextOld ==
  \/ \E sq \in Squares : handleSquareClickOld(sq)
  \/ resetGameOld
  \/ AiTimerOld
  \/ \E mode \in {"level", "custom"} : setConfigMode(mode)
  \/ \E lvl \in AiLevels : setAiLevel(lvl)
  \/ \E val \in DepthInputs : updateCustom(val)

SpecOld == Init /\ [][NextOld]_vars

(***************************************************************************)
(* Properties.                                                             *)
(***************************************************************************)
\* An event that wrote a history entry: a human move applied by
\* handleSquareClick, or an AI result applied by the timer callback.
Wrote(o) == o.res = "moved"

\* C1: right after every move-applying step (human move or AI result)
\* currentPly is the last index of history.
C1_PlyIsLastIndex == Wrote(lastOp) => currentPly = Len(history) - 1

\* A human move was just applied below the tip of a longer history.
C1_Witness ==
  /\ lastOp.op = "click" /\ Wrote(lastOp)
  /\ lastOp.oldLen > lastOp.base + 1
  /\ currentPly = Len(history) - 1

\* C2: an accepted rollbackTo(p) sets currentPly to p and leaves history as
\* it is; selections and configuration changes leave both alone; and the
\* next move written, by the human or by the AI, yields the old entries
\* 0..p followed by exactly one new entry (length p + 2).
C2_TruncateOnWrite ==
  [][ /\ (lastOp'.op = "rollback" /\ lastOp'.res = "restored")
         => (currentPly' = lastOp'.ply /\ history' = history)
      /\ (lastOp'.op \in {"click", "config"} /\ ~Wrote(lastOp'))
         => UNCHANGED <<currentPly, history>>
      /\ Wrote(lastOp')
         => /\ Len(history') = currentPly + 2
            /\ \A i \in 1..(currentPly + 1) : history'[i] = history[i] ]_vars

\* Ply 0 of a 10-ply history was restored and one human move made.
C2_Witness ==
  /\ lastOp.op = "click" /\ Wrote(lastOp)
  /\ lastOp.base = 0 /\ lastOp.oldLen = 11
  /\ Len(history) = 2

\* C3: history is never empty and entry 0 is always the start entry: the
\* start position with no last move.
C3_StartEntryKept ==
  /\ Len(history) >= 1
  /\ history[1] = StartEntry(NewGame)

\* The AI wrote its entry on the prefix of a history rolled back to ply 1.
C3_Witness ==
  /\ lastOp.op = "timer" /\ Wrote(lastOp)
  /\ lastOp.base = 1 /\ lastOp.oldLen > 3
  /\ history[1] = StartEntry(NewGame)

\* C4: a square click while aiThinking is set, or while the displayed
\* snapshot is not White to move, or is checkmate, changes no state of the
\* app and schedules no AI search.
C4_IgnoredClickChangesNothing ==
  [][ (lastOp'.op = "click"
        /\ (aiThinking \/ Turn(config) # "white" \/ CheckMate(config)))
      => UNCHANGED <<appVars, timers>> ]_vars

\* A square was clicked on a checkmated board with White to move.
C4_Witness ==
  /\ lastOp.op = "click" /\ lastOp.res = "ignored"
  /\ CheckMate(config) /\ Turn(config) = "white" /\ ~aiThinking

\* The state of a new game: the values the hooks of App start with.
FreshGame ==
  /\ game = NewGame /\ config = NewGame
  /\ selected = Null /\ validMoves = {}
  /\ status = "Your turn (White)"
  /\ aiThinking = FALSE
  /\ lastMove = NoMove
  /\ history = << StartEntry(NewGame) >>
  /\ currentPly = 0
  /\ timers = << >>

\* C5, as stated: reset() can be issued in every reachable state, also
\* while an AI search is in flight, and leaves exactly the initial state.
C5_ResetAlwaysSucceeds ==
  /\ ENABLED resetGame
  /\ lastOp.op = "reset" => FreshGame

\* C5, amended: reset() (the New Game button) can be issued exactly when
\* no AI search is in flight, and the state right after it is the initial
\* state: fresh game at the start position, no selection, no destinations,
\* status 'Your turn (White)', in-flight flag false, no last move, history
\* of the single start entry, currentPly 0 and no search pending.
C5_ResetWhenIdle ==
  /\ (ENABLED resetGame) <=> ~aiThinking
  /\ lastOp.op = "reset" => FreshGame

\* New Game was pressed with more than two plies on the log.
C5_Witness ==
  /\ lastOp.op = "reset" /\ lastOp.oldLen > 3
  /\ FreshGame

\* C6: at most one AI search is pending at any time, and while one is
\* pending the only event that changes the state is its own completion:
\* no second search is scheduled, no click, rollback, reset or
\* configuration change takes effect.
C6_OneSearchAtATime ==
  [][ /\ Len(timers') <= 1
      /\ (timers # << >> /\ lastOp'.op # "timer")
         => UNCHANGED <<appVars, timers>> ]_vars

\* A rollback was attempted, and ignored, with a search pending.
C6_Witness ==
  /\ Len(timers) = 1
  /\ lastOp.op = "rollback" /\ lastOp.res = "ignored"
  /\ lastOp.ply \in 0..(Len(history) - 1)

\* C7: no pending AI search holds a checkmate position, and a human move
\* or a rollback that arrives at a checkmate position schedules none.
C7_NoSearchOnCheckmate ==
  /\ \A i \in 1..Len(timers) : ~CheckMate(TimerPos(timers[i]))
  /\ (lastOp.op \in {"click", "rollback"} /\ lastOp.res \in {"moved", "restored"}
      /\ CheckMate(config))
     => (timers = << >> /\ ~aiThinking)

\* The human has just given checkmate, and no search was scheduled.
C7_Witness ==
  /\ lastOp.op = "click" /\ Wrote(lastOp)
  /\ CheckMate(config) /\ Turn(config) = "black"
  /\ timers = << >>

\* C8: every pending AI search holds a position in which the side to move
\* has a legal move.
C8_NoSearchWithoutLegalMove ==
  \A i \in 1..Len(timers) : LegalMoves(TimerPos(timers[i])) # {}

\* C9: the move a click forwards to game.move() is legal in the live game
\* (game.move() never throws), and the stored destination set is the set
\* of legal destinations of the selected square in the live game.
C9_ForwardedMoveIsLegal ==
  /\ lastOp.op = "click" => lastOp.res # "threw"
  /\ validMoves = getMovesForSquare(game, selected)

\* A human move was forwarded from a position restored by a rollback to a
\* ply other than the start.
C9_Witness ==
  /\ lastOp.op = "click" /\ Wrote(lastOp)
  /\ lastOp.base > 0 /\ lastOp.oldLen > lastOp.base + 1
  /\ lastMove = <<"H2", lastOp.sq>>

\* C10: while the AI search for a reply is pending, the human move it
\* replies to is the last entry of the prefix the search was given and is
\* the current, displayed ply; and in every history an entry after which
\* White is to move (an AI entry) directly follows the entry of the human
\* move it replies to: Black was to move there and the AI entry's move
\* leads from that snapshot to its own.
C10_HumanEntryBeforeAiEntry ==
  /\ \A i \in 1..Len(timers) :
       LET pre == timers[i].prevHistory
       IN  /\ Turn(pre[Len(pre)].snapshot) = "black"
           /\ currentPly = Len(pre) - 1
           /\ history[currentPly + 1] = pre[Len(pre)]
           /\ config = pre[Len(pre)].snapshot
  /\ \A i \in 2..Len(history) :
       Turn(history[i].snapshot) = "white"
       => /\ Turn(history[i - 1].snapshot) = "black"
          /\ history[i].lastMove \in LegalMoves(history[i - 1].snapshot)
          /\ history[i].snapshot =
               MoveResult(history[i - 1].snapshot,
                          history[i].lastMove[1], history[i].lastMove[2])

\* The AI has replied to a human move made at ply 2 or later.
C10_Witness ==
  /\ lastOp.op = "timer" /\ Wrote(lastOp)
  /\ lastOp.oldLen = Len(history) - 1
  /\ Len(history) >= 5
  /\ Turn(history[Len(history) - 1].snapshot) = "black"

\* A click on sq that handleSquareClick does not ignore, made while a
\* square is selected (evaluated on the state before the click).
ClickWithSelection(sq) ==
  /\ lastOp'.op = "click" /\ lastOp'.sq = sq
  /\ ~(aiThinking \/ Turn(config) # "white" \/ CheckMate(config))
  /\ selected # Null

\* C11: with the White king selected on its home square E1 and the castle
\* destination (G1, resp. C1) among the legal destinations, a click on the
\* rook square (H1, resp. A1) applies the king move to the castle
\* destination: last move, history entry and label carry G1 (C1), the king
\* stands there, and nothing is selected afterwards.
C11_RookClickCastles ==
  [][ \A sq \in {"H1", "A1"} :
        LET dest == IF sq = "H1" THEN "G1" ELSE "C1"
        IN  (/\ ClickWithSelection(sq)
             /\ selected = "E1" /\ PieceAt(config, "E1") = "K"
             /\ PieceAt(config, sq) = "R"
             /\ dest \in validMoves)
            => /\ lastMove' = <<"E1", dest>>
               /\ history'[Len(history')].lastMove = <<"E1", dest>>
               /\ history'[Len(history')].label = "E1-" \o dest
               /\ PieceAt(config', dest) = "K"
               /\ game' = config'
               /\ selected' = Null /\ validMoves' = {} ]_vars

\* The queen-side rook square was clicked and the king castled to C1.
C11_Witness ==
  /\ lastOp.op = "click" /\ lastOp.sq = "A1" /\ Wrote(lastOp)
  /\ lastMove = <<"E1", "C1">>
  /\ history[Len(history)].label = "E1-C1"
  /\ selected = Null

\* C12: the move applied by a click goes to a square other than the
\* clicked one only if the king is selected on its home square, the clicked
\* square is the rook square of a castle and the castle destination is
\* legal; a click on a square that is itself a legal destination of the
\* selected piece moves the piece to exactly that square.
C12_RedirectOnlyForCastle ==
  [][ \A sq \in Squares :
        (ClickWithSelection(sq) /\ Wrote(lastOp'))
        => /\ lastMove'[1] = selected
           /\ lastMove'[2] # sq
              => /\ PieceAt(config, selected) = "K" /\ selected = "E1"
                 /\ sq \in {"H1", "A1"} /\ PieceAt(config, sq) = "R"
                 /\ lastMove'[2] = CASTLE_ROOK_MAP[sq]
                 /\ lastMove'[2] \in validMoves
           /\ sq \in validMoves => lastMove'[2] = sq ]_vars

\* C13: a click on the selected square, when that square is not a legal
\* destination, leaves nothing selected and no legal destinations.
C13_ClickSelectedDeselects ==
  [][ \A sq \in Squares :
        (ClickWithSelection(sq) /\ sq = selected /\ sq \notin validMoves)
        => (selected' = Null /\ validMoves' = {}) ]_vars

\* C14: with nothing selected, a click on a square that is empty or holds
\* a Black piece changes no state (selection and destinations stay empty,
\* no search is scheduled); and whenever a click makes a square the
\* selected one, that square holds a White piece.
C14_OnlyWhitePieceSelects ==
  [][ /\ \A sq \in Squares :
           (/\ lastOp'.op = "click" /\ lastOp'.sq = sq
            /\ selected = Null
            /\ PieceAt(config, sq) \notin {"K", "Q", "R", "B", "N", "P"})
           => (/\ UNCHANGED <<appVars, timers>>
               /\ selected' = Null /\ validMoves' = {})
      /\ (selected' # Null /\ selected' # selected)
         => /\ lastOp'.op = "click" /\ lastOp'.sq = selected'
            /\ PieceAt(config, selected') \in {"K", "Q", "R", "B", "N", "P"} ]_vars

\* With nothing selected a square holding a Black piece was clicked on a
\* board with White to move, and nothing is selected.
C14_Witness ==
  /\ lastOp.op = "click" /\ lastOp.res = "none"
  /\ PieceAt(config, lastOp.sq) \in {"k", "q"}
  /\ Turn(config) = "white" /\ ~aiThinking
  /\ selected = Null /\ validMoves = {}

\* C15: a click whose effective destination is legal, made at current ply
\* p, applies the move to the live game, appends exactly one entry at index
\* p + 1 holding the move (selected origin, effective destination) and the
\* position after it, makes p + 1 the current ply and clears the selection;
\* if the new position is checkmate the status is 'Checkmate! You win!' and
\* no search is scheduled, otherwise exactly one search is scheduled.
C15_HumanMoveEffect ==
  [][ \A sq \in Squares :
        (ClickWithSelection(sq) /\ TargetSq(sq) \in validMoves)
        => LET to == TargetSq(sq)
               cfg == MoveResult(game, selected, to)
           IN  /\ game' = cfg /\ config' = cfg
               /\ Len(history') = currentPly + 2
               /\ SubSeq(history', 1, currentPly + 1)
                    = SubSeq(history, 1, currentPly + 1)
               /\ history'[currentPly + 2].lastMove = <<selected, to>>
               /\ history'[currentPly + 2].snapshot = cfg
               /\ lastMove' = <<selected, to>>
               /\ currentPly' = currentPly + 1
               /\ selected' = Null /\ validMoves' = {}
               /\ IF CheckMate(cfg)
                  THEN /\ status' = "Checkmate! You win!"
                       /\ timers' = timers /\ aiThinking' = aiThinking
                  ELSE /\ Len(timers') = Len(timers) + 1
                       /\ aiThinking' = TRUE ]_vars

\* From the start position the pawn was moved E2 to E4: history has two
\* entries, the pawn stands on E4 and not on E2, and one search is pending.
C15_Witness ==
  /\ lastOp.op = "click" /\ Wrote(lastOp) /\ lastOp.oldLen = 1
  /\ lastMove = <<"E2", "E4">>
  /\ Len(history) = 2
  /\ PieceAt(history[2].snapshot, "E4") = "P"
  /\ PieceAt(history[2].snapshot, "E2") = ""
  /\ Len(timers) = 1 /\ aiThinking

\* C16: rollbackTo(ply) changes no state and schedules no search when an
\* AI search is in flight, and when ply is not an index of history.
C16_RollbackIgnored ==
  [][ (/\ lastOp'.op = "rollback"
       /\ (aiThinking \/ lastOp'.ply < 0 \/ lastOp'.ply >= Len(history)))
      => UNCHANGED <<appVars, timers>> ]_vars

\* A rollback to the index one past the last entry was ignored with moves
\* on the log and no search in flight.
C16_Witness ==
  /\ lastOp.op = "rollback" /\ lastOp.res = "norange"
  /\ lastOp.ply = Len(history) /\ Len(history) > 1
  /\ ~aiThinking

\* C17: currentPly is always an index of history.
C17_PlyInRange == 0 <= currentPly /\ currentPly < Len(history)

\* Ply 2 of a longer history was restored and is the current one.
C17_Witness ==
  /\ lastOp.op = "rollback" /\ lastOp.res = "restored"
  /\ currentPly = 2 /\ Len(history) >= 5

\* The piece that made the move of history entry e, read from its snapshot.
Mover(e) == PieceAt(e.snapshot, e.lastMove[2])

\* C18: for every index i > 0 of history (entry i is history[i + 1]): if i
\* is odd the entry holds a move of a White piece and Black is to move in
\* its snapshot; if i is even it holds a move of a Black piece and White is
\* to move in its snapshot.
C18_PlyParity ==
  \A i \in 1..(Len(history) - 1) :
    IF i % 2 = 1
    THEN /\ Turn(history[i + 1].snapshot) = "black"
         /\ Mover(history[i + 1]) \in {"K", "Q", "R", "B", "N", "P"}
    ELSE /\ Turn(history[i + 1].snapshot) = "white"
         /\ Mover(history[i + 1]) \in {"k", "q", "r", "b", "n", "p"}

\* The human has moved from a restored even ply below the tip of the log.
C18_Witness ==
  /\ lastOp.op = "click" /\ Wrote(lastOp)
  /\ lastOp.base = 2 /\ lastOp.oldLen >= 5
  /\ Len(history) = 4

\* C19: a rollbackTo(ply) that is not ignored makes the live game a game
\* at history[ply].snapshot, displays that snapshot, sets currentPly to
\* ply and the last move to the entry's, clears the selection and keeps
\* history; if the snapshot is not checkmate and has Black to move it sets
\* the in-flight flag and schedules one search on the new game with the
\* prefix history[0..ply]; otherwise it schedules no search.
C19_RollbackEffect ==
  [][ \A ply \in 0..(Len(history) - 1) :
        (lastOp'.op = "rollback" /\ lastOp'.ply = ply /\ ~aiThinking)
        => LET entry == history[ply + 1]
           IN  /\ game' = entry.snapshot /\ config' = entry.snapshot
               /\ currentPly' = ply
               /\ lastMove' = entry.lastMove
               /\ selected' = Null /\ validMoves' = {}
               /\ history' = history
               /\ IF ~CheckMate(entry.snapshot) /\ Turn(entry.snapshot) = "black"
                  THEN /\ aiThinking' = TRUE
                       /\ Len(timers') = 1
                       /\ timers'[1].g.live
                       /\ timers'[1].prevHistory = SubSeq(history, 1, ply + 1)
                  ELSE /\ timers' = << >>
                       /\ aiThinking' = FALSE ]_vars

\* A ply with Black to move, below the tip of the log, was restored and a
\* search on the prefix up to it is pending.
C19_Witness ==
  /\ lastOp.op = "rollback" /\ lastOp.res = "restored"
  /\ lastOp.ply = 1 /\ Len(history) >= 4
  /\ Len(timers) = 1 /\ Len(timers[1].prevHistory) = 2
  /\ aiThinking /\ Turn(config) = "black"

\* C20: nothing is selected, and the destination set is empty, whenever an
\* AI search is in flight, or the displayed snapshot has Black to move, or
\* a rollback or a reset has just been applied; and a selected square
\* always holds a White piece in the displayed snapshot.
C20_SelectionCleared ==
  /\ (\/ aiThinking
      \/ Turn(config) = "black"
      \/ (lastOp.op = "rollback" /\ lastOp.res = "restored")
      \/ lastOp.op = "reset")
     => (selected = Null /\ validMoves = {})
  /\ selected # Null
     => PieceAt(config, selected) \in {"K", "Q", "R", "B", "N", "P"}

\* Ply 4, with White to move, was restored from a longer history and
\* nothing is selected.
C20_Witness ==
  /\ lastOp.op = "rollback" /\ lastOp.res = "restored"
  /\ Turn(config) = "white" /\ ~aiThinking
  /\ currentPly = 4 /\ Len(history) >= 7
  /\ selected = Null /\ validMoves = {}

\* C21: every scheduled AI search completes: the run of its callback
\* appends exactly one entry to the history prefix it was given, makes the
\* new last index the current ply and clears the in-flight flag; so the
\* in-flight flag is only ever set while a search is pending that will
\* clear it.
C21_SearchCompletes ==
  [][ /\ lastOp'.op = "timer"
         => /\ timers # << >>
            /\ Len(history') = Len(Head(timers).prevHistory) + 1
            /\ SubSeq(history', 1, Len(history') - 1) = Head(timers).prevHistory
            /\ currentPly' = Len(history') - 1
            /\ aiThinking' = FALSE
      /\ aiThinking' => timers' # << >> ]_vars

\* C23: in every reachable state the displayed snapshot is the snapshot
\* of the history entry at currentPly and the last-move highlight is that
\* entry's lastMove; and whenever no AI search is running the position of
\* the live game object is the displayed snapshot.
C23_DisplayIsCurrentEntry ==
  /\ currentPly + 1 \in DOMAIN history
  /\ config = history[currentPly + 1].snapshot
  /\ lastMove = history[currentPly + 1].lastMove
  /\ ~aiThinking => game = config

\* C23 witness: after a rollback to an earlier ply of a longer history the
\* display shows that earlier entry and the live game stands on it.
C23_Witness ==
  /\ lastOp.op = "rollback"
  /\ lastOp.res = "restored"
  /\ ~aiThinking
  /\ currentPly > 0
  /\ currentPly + 1 < Len(history)
  /\ config = history[currentPly + 1].snapshot
  /\ game = config
  /\ lastMove # NoMove

\* C24: a rollback to a ply whose snapshot is White to move or checkmate
\* leaves the history as it was and starts no search, so the entries
\* beyond that ply stay rollback targets: a following rollbackTo(q) with
\* q above the current ply and inside the log is accepted and restores
\* the snapshot and last move of entry q, again without changing the log.
C24_RollbackKeepsLog ==
  [][ /\ (/\ lastOp'.op = "rollback"
          /\ lastOp'.res = "restored"
          /\ lastOp' # lastOp
          /\ LET cfg == history[lastOp'.ply + 1].snapshot
             IN  Turn(cfg) = "white" \/ CheckMate(cfg))
         => /\ history' = history
            /\ aiThinking' = FALSE
            /\ timers' = << >>
      /\ (/\ lastOp.op = "rollback"
          /\ lastOp.res = "restored"
          /\ Turn(config) = "white" \/ CheckMate(config)
          /\ lastOp'.op = "rollback"
          /\ lastOp'.ply > currentPly
          /\ lastOp'.ply < Len(history))
         => /\ lastOp'.res = "restored"
            /\ history' = history
            /\ currentPly' = lastOp'.ply
            /\ config' = history[lastOp'.ply + 1].snapshot
            /\ lastMove' = history[lastOp'.ply + 1].lastMove
            /\ game' = config' ]_vars

\* C24 witness: a rollback forward, from a ply restored by an earlier
\* rollback to a later entry of the same log, has restored that entry.
C24_Witness ==
  /\ lastOp.op = "rollback"
  /\ lastOp.res = "restored"
  /\ lastOp.ply > lastOp.base
  /\ lastOp.oldLen = Len(history)
  /\ currentPly = lastOp.ply
  /\ Turn(config) = "white"
  /\ config = history[currentPly + 1].snapshot
  /\ config.n = currentPly

\* C22: when New Game was pressed while an AI search was pending, the
\* later run of that search's callback, which holds the discarded game
\* object, changes nothing of the state after the reset: board, last
\* move, status, in-flight flag, history and current ply stay as they are.
C22_StaleSearchIsInert ==
  [][ (/\ timers # << >>
       /\ ~Head(timers).g.live
       /\ lastOp'.op = "timer")
      => UNCHANGED <<config, lastMove, status, aiThinking, history, currentPly>> ]_vars

====
